---- MODULE Spec2Model ----
(***************************************************************************)
(* Shipping-address controllers of the e-commerce backend.                 *)
(*                                                                         *)
(* The relational store (table of shipping addresses, table of users) is   *)
(* the only shared state.  Every handler is an async function: it runs     *)
(* synchronously between two awaited database calls, and each awaited      *)
(* call (a single statement, or one sequelize.transaction) takes effect    *)
(* atomically.  A handler is therefore modelled as one action per awaited  *)
(* database call, the synchronous code that follows the call included.     *)
(*                                                                         *)
(* Two controllers for shipping addresses exist in the sources: the one    *)
(* with validation and transactions (src/unnamed/part_000) and a basic one *)
(* (src/unnamed/part_001, lines 1-144).  Handlers of the second carry the  *)
(* suffix Basic.                                                           *)
(***************************************************************************)
EXTENDS Integers, Sequences, FiniteSets, TLC

VARIABLES
    addresses,  \* the ShippingAddress table: a set of rows
    nextId,     \* the auto-increment key of the ShippingAddress table
    now,        \* the wall clock read by new Date()
    pc,         \* pc[p]: where request slot p stands in its handler
    req,        \* req[p]: the request (params, body, query, caller identity)
    loc,        \* loc[p]: the handler's local constants across awaits
    resp,       \* resp[p]: the response sent (status and JSON body parts)
    wrote       \* wrote[p]: the request of slot p has changed the table

vars == <<addresses, nextId, now, pc, req, loc, resp, wrote>>

----------------------------------------------------------------------------
(* Bounds of the model *)

\* Request slots: the requests that can be in flight together.
Procs == {"p1", "p2"}

\* Rows of the User table.  Users are created and deleted elsewhere.
Users == {1, 2}

\* A user id that resolves to no row of the User table.
UnknownUser == 9

\* Create requests the environment issues in the runs about the address limit.
MaxRows == 6

\* Create requests the environment issues in the runs about the other handlers.
MaxRowsSmall == 2

\* Create requests the environment issues in the runs about partial updates.
MaxRowsUpdate == 1

\* The clock ticks at most this often.
MaxClock == 1

\* Create requests the environment issues in the runs about the list handlers.
MaxRowsPage == 5
MaxRowsTxn == 2

\* The limit of addresses per user (userAddressCount >= 5).
MaxAddresses == 5

\* Pagination: default page, default limit, largest limit.
DefaultPage == 1
DefaultLimit == 10
MaxLimit == 50

----------------------------------------------------------------------------
(* Strings are sequences of characters. *)

Digits == {"0", "1", "2", "3", "4", "5", "6", "7", "8", "9"}

WhiteSpace == {" ", "\t"}

\* String.prototype.trim
RECURSIVE TrimStart(_)
TrimStart(s) ==
    IF s # <<>> /\ Head(s) \in WhiteSpace THEN TrimStart(Tail(s)) ELSE s

RECURSIVE TrimEnd(_)
TrimEnd(s) ==
    IF s # <<>> /\ s[Len(s)] \in WhiteSpace
    THEN TrimEnd(SubSeq(s, 1, Len(s) - 1))
    ELSE s

Trim(s) == TrimEnd(TrimStart(s))

\* /^\d{5}(-\d{4})?$/.test(s)
postalCodeRegex(s) ==
    \/ /\ Len(s) = 5
       /\ \A i \in 1..5 : s[i] \in Digits
    \/ /\ Len(s) = 10
       /\ \A i \in 1..5 : s[i] \in Digits
       /\ s[6] = "-"
       /\ \A i \in 7..10 : s[i] \in Digits

\* The text fields of a request body and of a row.
TextFields == {"direccion", "ciudad", "estado_provincia", "codigo_postal", "pais"}

\* JavaScript truthiness of body field f: present and not the empty string.
Truthy(body, f) == f \in DOMAIN body /\ body[f] # <<>>

\* JavaScript truthiness of a numeric id: 0 stands for an absent or zero id.
TruthyId(n) == n # 0

----------------------------------------------------------------------------
(* The ShippingAddress table *)

Ids(store) == {r.id : r \in store}

Row(store, id) == CHOOSE r \in store : r.id = id

\* ShippingAddress.count({ where: { usuario_id } })
CountByUser(store, u) == Cardinality({r \in store : r.usuario_id = u})

OwnedBy(store, u) == {r \in store : r.usuario_id = u}

\* User.findByPk(id) finds a row
UserExists(u) == u \in Users

\* is_default of a row created without the attribute (model default)
IsDefaultOnCreate == FALSE

\* The foreign key usuario_id -> User accepts the row
ForeignKeyOk(u) == UserExists(u)

----------------------------------------------------------------------------
(* Request slots *)

NoReq == [op |-> "none"]
NoLoc == [none |-> TRUE]
NoResp == [status |-> 0]

Respond(p, r) ==
    /\ pc' = [pc EXCEPT ![p] = "done"]
    /\ resp' = [resp EXCEPT ![p] = r]

Goto(p, label) ==
    /\ pc' = [pc EXCEPT ![p] = label]
    /\ UNCHANGED resp

\* Bookkeeping: the step of slot p changed the table
Marked(p) == wrote' = [wrote EXCEPT ![p] = @ \/ (addresses' # addresses)]

Init ==
    /\ addresses = {}
    /\ nextId = 1
    /\ now = 0
    /\ pc = [p \in Procs |-> "idle"]
    /\ req = [p \in Procs |-> NoReq]
    /\ loc = [p \in Procs |-> NoLoc]
    /\ resp = [p \in Procs |-> NoResp]
    /\ wrote = [p \in Procs |-> FALSE]

\* The client takes the response; the slot is free for the next request.
Return(p) ==
    /\ pc[p] = "done"
    /\ pc' = [pc EXCEPT ![p] = "idle"]
    /\ req' = [req EXCEPT ![p] = NoReq]
    /\ loc' = [loc EXCEPT ![p] = NoLoc]
    /\ resp' = [resp EXCEPT ![p] = NoResp]
    /\ wrote' = [wrote EXCEPT ![p] = FALSE]
    /\ UNCHANGED <<addresses, nextId, now>>

\* Time passes.
Tick ==
    /\ now < MaxClock
    /\ now' = now + 1
    /\ UNCHANGED <<addresses, nextId, pc, req, loc, resp, wrote>>

----------------------------------------------------------------------------
(* Row locks of open transactions *)

\* The rows slot q has written in a transaction that is still open: the
\* database keeps them locked until the commit or the rollback
HeldBy(q) ==
    IF pc[q] = "setDefault_set" THEN loc[q].cleared
    ELSE IF pc[q] = "update_reload" /\ loc[q].written THEN {req[q].id}
    ELSE {}

\* The rows a statement of slot p has to wait for
LockedFor(p) == UNION {HeldBy(q) : q \in Procs \ {p}}

----------------------------------------------------------------------------
(* createShippingAddress, src/unnamed/part_000 *)

\* !usuarioId || !direccion || !ciudad || !estadoProvincia || !codigoPostal || !pais
MissingField(body) ==
    \/ ~("usuario_id" \in DOMAIN body /\ TruthyId(body.usuario_id))
    \/ \E f \in TextFields : ~Truthy(body, f)

\* The limit check off by one: a sixth address is let through
LimitReached_offByOne(count) == count > MaxAddresses

\* userAddressCount >= 5
LimitReached(count) == count >= MaxAddresses

\* The row ShippingAddress.create inserts
NewRow(id, body, stamp) ==
    [id |-> id,
     usuario_id |-> body.usuario_id,
     direccion |-> Trim(body.direccion),
     ciudad |-> Trim(body.ciudad),
     estado_provincia |-> Trim(body.estado_provincia),
     codigo_postal |-> Trim(body.codigo_postal),
     pais |-> Trim(body.pais),
     is_default |-> IsDefaultOnCreate,
     created_at |-> stamp,
     updated_at |-> stamp]

\* Validation, then User.findByPk(usuarioId)
createShippingAddress(p, body) ==
    /\ pc[p] = "idle"
    /\ req' = [req EXCEPT ![p] = [op |-> "create", body |-> body]]
    /\ IF MissingField(body)
       THEN Respond(p, [status |-> 400, error |-> "All fields are required"])
       ELSE IF ~UserExists(body.usuario_id)
       THEN Respond(p, [status |-> 404, error |-> "User not found"])
       ELSE Goto(p, "create_count")
    /\ UNCHANGED <<addresses, nextId, now, loc>>
    /\ Marked(p)

\* ShippingAddress.count, the limit check, the postal code check, new Date()
createShippingAddress_count(p) ==
    /\ pc[p] = "create_count"
    /\ LET body == req[p].body
           userAddressCount == CountByUser(addresses, body.usuario_id)
       IN IF LimitReached(userAddressCount)
          THEN /\ Respond(p, [status |-> 400,
                              error |-> "Maximum number of addresses reached (5)",
                              currentCount |-> userAddressCount])
               /\ UNCHANGED loc
          ELSE IF ~postalCodeRegex(Trim(body.codigo_postal))
          THEN /\ Respond(p, [status |-> 400, error |-> "Invalid postal code format"])
               /\ UNCHANGED loc
          ELSE /\ Goto(p, "create_insert")
               /\ loc' = [loc EXCEPT ![p] = [stamp |-> now]]
    /\ UNCHANGED <<addresses, nextId, now, req>>
    /\ Marked(p)

\* ShippingAddress.create, then the re-read with the user projection
createShippingAddress_insert(p) ==
    /\ pc[p] = "create_insert"
    /\ addresses' = addresses \cup {NewRow(nextId, req[p].body, loc[p].stamp)}
    /\ nextId' = nextId + 1
    /\ Respond(p, [status |-> 201, id |-> nextId])
    /\ UNCHANGED <<now, req, loc>>
    /\ Marked(p)

----------------------------------------------------------------------------
(* createShippingAddress, src/unnamed/part_001 *)

\* Validation, ShippingAddress.count and the limit check; no user lookup and
\* no postal code check
createShippingAddressBasic(p, body) ==
    /\ pc[p] = "idle"
    /\ req' = [req EXCEPT ![p] = [op |-> "createBasic", body |-> body]]
    /\ IF MissingField(body)
       THEN Respond(p, [status |-> 400, error |-> "All fields are required"])
       ELSE LET userAddressCount == CountByUser(addresses, body.usuario_id)
            IN IF LimitReached(userAddressCount)
               THEN Respond(p, [status |-> 400,
                                error |-> "Maximum number of addresses reached (5)"])
               ELSE Goto(p, "createBasic_insert")
    /\ UNCHANGED <<addresses, nextId, now, loc>>
    /\ Marked(p)

\* ShippingAddress.create; the timestamps are the column defaults
createShippingAddressBasic_insert(p) ==
    /\ pc[p] = "createBasic_insert"
    /\ IF ForeignKeyOk(req[p].body.usuario_id)
       THEN /\ addresses' = addresses \cup {NewRow(nextId, req[p].body, now)}
            /\ nextId' = nextId + 1
            /\ Respond(p, [status |-> 201, id |-> nextId])
       ELSE /\ UNCHANGED <<addresses, nextId>>
            /\ Respond(p, [status |-> 500, error |-> "Error creating shipping address"])
    /\ UNCHANGED <<now, req, loc>>
    /\ Marked(p)

----------------------------------------------------------------------------
(* deleteShippingAddress, src/unnamed/part_000 *)

\* address.usuario_id !== req.userId && !req.isAdmin
NotAuthorized(ownerId, caller) == ownerId # caller.userId /\ ~caller.isAdmin

\* The destroy issued before the ownership check
deleteShippingAddress_destroyFirst(p, id, caller) ==
    /\ pc[p] = "idle"
    /\ req' = [req EXCEPT ![p] = [op |-> "delete", id |-> id, caller |-> caller]]
    /\ addresses' = {r \in addresses : r.id # id}
    /\ IF ~TruthyId(id)
       THEN Respond(p, [status |-> 400, error |-> "Shipping address ID is required"])
       ELSE IF id \notin Ids(addresses)
       THEN Respond(p, [status |-> 404, error |-> "Shipping address not found"])
       ELSE IF NotAuthorized(Row(addresses, id).usuario_id, caller)
       THEN Respond(p, [status |-> 403, error |-> "Not authorized to delete this address"])
       ELSE Respond(p, [status |-> 200, id |-> id, userId |-> Row(addresses, id).usuario_id,
                        deletedBy |-> caller])
    /\ UNCHANGED <<nextId, now, loc>>
    /\ Marked(p)

\* ShippingAddress.findByPk, then the not-found and the ownership checks
deleteShippingAddress(p, id, caller) ==
    /\ pc[p] = "idle"
    /\ req' = [req EXCEPT ![p] = [op |-> "delete", id |-> id, caller |-> caller]]
    /\ IF ~TruthyId(id)
       THEN /\ Respond(p, [status |-> 400, error |-> "Shipping address ID is required"])
            /\ UNCHANGED loc
       ELSE IF id \notin Ids(addresses)
       THEN /\ Respond(p, [status |-> 404, error |-> "Shipping address not found"])
            /\ UNCHANGED loc
       ELSE IF NotAuthorized(Row(addresses, id).usuario_id, caller)
       THEN /\ Respond(p, [status |-> 403, error |-> "Not authorized to delete this address"])
            /\ UNCHANGED loc
       ELSE /\ Goto(p, "delete_txn")
            /\ loc' = [loc EXCEPT ![p] = [usuario_id |-> Row(addresses, id).usuario_id]]
    /\ UNCHANGED <<addresses, nextId, now>>
    /\ Marked(p)

\* sequelize.transaction: address.destroy(), a DELETE by primary key that
\* waits for a locked row
deleteShippingAddress_txn(p) ==
    /\ pc[p] = "delete_txn"
    /\ req[p].id \notin LockedFor(p)
    /\ addresses' = {r \in addresses : r.id # req[p].id}
    /\ Respond(p, [status |-> 200, id |-> req[p].id, userId |-> loc[p].usuario_id,
                   deletedBy |-> req[p].caller])
    /\ UNCHANGED <<nextId, now, req, loc>>
    /\ Marked(p)

----------------------------------------------------------------------------
(* deleteShippingAddress, src/unnamed/part_001 *)

\* ShippingAddress.destroy({ where: { id_ShipingAddress } }): no lookup, no
\* ownership check; the statement either deletes by that key or is refused by
\* the database
deleteShippingAddressBasic(p, id, caller) ==
    /\ pc[p] = "idle"
    /\ req' = [req EXCEPT ![p] = [op |-> "deleteBasic", id |-> id, caller |-> caller]]
    /\ \/ /\ id \notin LockedFor(p)
          /\ addresses' = {r \in addresses : r.id # id}
          /\ Respond(p, [status |-> 204])
       \/ /\ UNCHANGED addresses
          /\ Respond(p, [status |-> 500, error |-> "destroy failed"])
    /\ UNCHANGED <<nextId, now, loc>>
    /\ Marked(p)

----------------------------------------------------------------------------
(* updateShippingAddress, src/unnamed/part_000 *)

\* The updates object without the if guards: a field not supplied is written empty
Updates_unguarded(body, stamp) ==
    [f \in TextFields \cup {"updated_at"} |->
        IF f = "updated_at" THEN stamp
        ELSE IF Truthy(body, f) THEN Trim(body[f]) ELSE <<>>]

\* req.body handed to address.update as it came: every field of the body is written
Updates_wholeBody(body, stamp) ==
    [f \in DOMAIN body \cup {"updated_at"} |->
        IF f = "updated_at" THEN stamp
        ELSE IF f \in TextFields THEN Trim(body[f]) ELSE body[f]]

\* The updates object: updated_at always, a text field when its value is truthy
Updates(body, stamp) ==
    [f \in {g \in TextFields : Truthy(body, g)} \cup {"updated_at"} |->
        IF f = "updated_at" THEN stamp ELSE Trim(body[f])]

\* address.update(updates): the row with the fields of updates overwritten
ApplyUpdates(row, updates) ==
    [f \in DOMAIN row |-> IF f \in DOMAIN updates THEN updates[f] ELSE row[f]]

\* ShippingAddress.findByPk, the not-found, ownership and postal code checks,
\* and the updates object
updateShippingAddress(p, id, caller, body) ==
    /\ pc[p] = "idle"
    /\ req' = [req EXCEPT ![p] =
                  [op |-> "update", id |-> id, caller |-> caller, body |-> body,
                   at |-> now]]
    /\ IF ~TruthyId(id)
       THEN /\ Respond(p, [status |-> 400, error |-> "Shipping address ID is required"])
            /\ UNCHANGED loc
       ELSE IF id \notin Ids(addresses)
       THEN /\ Respond(p, [status |-> 404, error |-> "Shipping address not found"])
            /\ UNCHANGED loc
       ELSE IF NotAuthorized(Row(addresses, id).usuario_id, caller)
       THEN /\ Respond(p, [status |-> 403, error |-> "Not authorized to update this address"])
            /\ UNCHANGED loc
       ELSE IF Truthy(body, "codigo_postal") /\ ~postalCodeRegex(Trim(body.codigo_postal))
       THEN /\ Respond(p, [status |-> 400, error |-> "Invalid postal code format"])
            /\ UNCHANGED loc
       ELSE /\ Goto(p, "update_txn")
            /\ loc' = [loc EXCEPT ![p] = [updates |-> Updates(body, now)]]
    /\ UNCHANGED <<addresses, nextId, now>>
    /\ Marked(p)

\* address.update(updates, { transaction: t }): the UPDATE by primary key
\* waits for a locked row, then writes the row if it is still there, or throws
updateShippingAddress_txn(p) ==
    /\ pc[p] = "update_txn"
    /\ \/ /\ req[p].id \notin LockedFor(p)
          /\ loc' = [loc EXCEPT ![p] =
                        [updates |-> loc[p].updates, written |-> req[p].id \in Ids(addresses)]]
          /\ Goto(p, "update_reload")
       \/ /\ Respond(p, [status |-> 500, error |-> "Error updating shipping address"])
          /\ UNCHANGED loc
    /\ UNCHANGED <<addresses, nextId, now, req>>
    /\ Marked(p)

\* address.reload({ transaction: t }) and the commit; the reload of a row that
\* is gone throws, and a throw rolls the transaction back
updateShippingAddress_reload(p) ==
    /\ pc[p] = "update_reload"
    /\ \/ /\ loc[p].written
          /\ addresses' = {IF r.id = req[p].id THEN ApplyUpdates(r, loc[p].updates) ELSE r :
                              r \in addresses}
          /\ Respond(p, [status |-> 200, id |-> req[p].id])
       \/ /\ UNCHANGED addresses
          /\ Respond(p, [status |-> 500, error |-> "Error updating shipping address"])
    /\ UNCHANGED <<nextId, now, req, loc>>
    /\ Marked(p)

----------------------------------------------------------------------------
(* setDefaultAddress, src/unnamed/part_000 *)

\* UPDATE ... SET is_default = false WHERE usuario_id = :usuario_id
ClearDefault(store, usuario_id) ==
    {IF r.usuario_id = usuario_id THEN [r EXCEPT !.is_default = FALSE] ELSE r : r \in store}

\* UPDATE ... SET is_default = true WHERE id = :id
SetDefault(store, id) ==
    {IF r.id = id THEN [r EXCEPT !.is_default = TRUE] ELSE r : r \in store}

\* The rows the first statement has matched set to false, the row with the
\* id set to true: what the commit of the transaction makes visible
CommitDefault(store, cleared, id) ==
    SetDefault({IF r.id \in cleared THEN [r EXCEPT !.is_default = FALSE] ELSE r : r \in store},
               id)

\* sequelize.transaction begins.  Neither the caller nor the ownership of the
\* address is looked at.
setDefaultAddress(p, id, usuario_id, caller) ==
    /\ pc[p] = "idle"
    /\ req' = [req EXCEPT ![p] =
                  [op |-> "setDefault", id |-> id, usuario_id |-> usuario_id,
                   caller |-> caller]]
    /\ Goto(p, "setDefault_clear")
    /\ UNCHANGED <<addresses, nextId, now, loc>>
    /\ Marked(p)

\* The first statement written without { transaction: t }: it commits on its own
setDefaultAddress_clear_noTransaction(p) ==
    /\ pc[p] = "setDefault_clear"
    /\ \/ /\ addresses' = ClearDefault(addresses, req[p].usuario_id)
          /\ loc' = [loc EXCEPT ![p] = [cleared |-> {}]]
          /\ Goto(p, "setDefault_set")
       \/ /\ Respond(p, [status |-> 500, error |-> "Error setting default address"])
          /\ UNCHANGED <<addresses, loc>>
    /\ UNCHANGED <<nextId, now, req>>
    /\ Marked(p)

\* The first statement, inside the transaction: it waits for locked rows, then
\* either writes the rows of usuario_id or throws, and the throw rolls back
setDefaultAddress_clear(p) ==
    /\ pc[p] = "setDefault_clear"
    /\ LET matched == Ids(OwnedBy(addresses, req[p].usuario_id))
       IN \/ /\ matched \cap LockedFor(p) = {}
             /\ loc' = [loc EXCEPT ![p] = [cleared |-> matched]]
             /\ Goto(p, "setDefault_set")
          \/ /\ Respond(p, [status |-> 500, error |-> "Error setting default address"])
             /\ UNCHANGED loc
    /\ UNCHANGED <<addresses, nextId, now, req>>
    /\ Marked(p)

\* The second statement and the commit, or a throw and the rollback
setDefaultAddress_set(p) ==
    /\ pc[p] = "setDefault_set"
    /\ \/ /\ req[p].id \notin LockedFor(p)
          /\ addresses' = CommitDefault(addresses, loc[p].cleared, req[p].id)
          /\ Respond(p, [status |-> 200, message |-> "Default address updated successfully"])
       \/ /\ UNCHANGED addresses
          /\ Respond(p, [status |-> 500, error |-> "Error setting default address"])
    /\ UNCHANGED <<nextId, now, req, loc>>
    /\ Marked(p)

----------------------------------------------------------------------------
(* bulkDeleteAddresses, src/unnamed/part_000 *)

Range(seq) == {seq[i] : i \in 1..Len(seq)}

\* The where clause without the owner: every listed id is deleted
BulkDeleteWhere_anyOwner(r, addressIds, userId) == r.id \in Range(addressIds)

\* where: { id: addressIds, usuario_id: req.userId }
BulkDeleteWhere(r, addressIds, userId) ==
    r.id \in Range(addressIds) /\ r.usuario_id = userId

\* The count reported as the number of rows the destroy removed
DeletedCount_rowsRemoved(addressIds, removed) == Cardinality(removed)

\* deletedCount: addressIds.length
DeletedCount(addressIds, removed) == Len(addressIds)

\* One transaction: ShippingAddress.destroy; then the response
bulkDeleteAddresses(p, addressIds, caller) ==
    /\ pc[p] = "idle"
    /\ req' = [req EXCEPT ![p] =
                  [op |-> "bulkDelete", addressIds |-> addressIds, caller |-> caller]]
    /\ \A r \in addresses :
          BulkDeleteWhere(r, addressIds, caller.userId) => r.id \notin LockedFor(p)
    /\ addresses' = {r \in addresses : ~BulkDeleteWhere(r, addressIds, caller.userId)}
    /\ Respond(p, [status |-> 200,
                   deletedCount |-> DeletedCount(addressIds, addresses \ addresses')])
    /\ UNCHANGED <<nextId, now, loc>>
    /\ Marked(p)

----------------------------------------------------------------------------
(* Pagination: parseInt, ||, Math.max, Math.min, Math.ceil *)

DigitVal ==
    [c \in Digits |->
        CASE c = "0" -> 0 [] c = "1" -> 1 [] c = "2" -> 2 [] c = "3" -> 3 [] c = "4" -> 4
          [] c = "5" -> 5 [] c = "6" -> 6 [] c = "7" -> 7 [] c = "8" -> 8 [] c = "9" -> 9]

RECURSIVE LeadingDigits(_)
LeadingDigits(s) ==
    IF s # <<>> /\ Head(s) \in Digits
    THEN <<Head(s)>> \o LeadingDigits(Tail(s))
    ELSE <<>>

RECURSIVE DecVal(_)
DecVal(ds) ==
    IF ds = <<>> THEN 0
    ELSE 10 * DecVal(SubSeq(ds, 1, Len(ds) - 1)) + DigitVal[ds[Len(ds)]]

NaN == [nan |-> TRUE, val |-> 0]

\* parseInt(query[k]): leading white space, a sign, then the leading digits;
\* NaN when the parameter is absent or no digit follows
parseInt(query, k) ==
    IF k \notin DOMAIN query THEN NaN
    ELSE LET t == TrimStart(query[k])
             signed == t # <<>> /\ Head(t) \in {"-", "+"}
             ds == LeadingDigits(IF signed THEN Tail(t) ELSE t)
         IN IF ds = <<>> THEN NaN
            ELSE [nan |-> FALSE,
                  val |-> IF signed /\ Head(t) = "-" THEN 0 - DecVal(ds) ELSE DecVal(ds)]

\* n || d: NaN and 0 are falsy
OrDefault(n, d) == IF n.nan \/ n.val = 0 THEN d ELSE n.val

Max(a, b) == IF a >= b THEN a ELSE b
Min(a, b) == IF a <= b THEN a ELSE b

\* Math.ceil(count / limit) for count >= 0 and limit > 0
Ceil(count, limit) == (count + limit - 1) \div limit

\* Math.max(1, parseInt(req.query.page) || 1)
PageOf(query) == Max(1, OrDefault(parseInt(query, "page"), DefaultPage))

\* Math.min(50, Math.max(1, parseInt(req.query.limit) || 10))
LimitOf(query) == Min(MaxLimit, Max(1, OrDefault(parseInt(query, "limit"), DefaultLimit)))

\* parseInt(req.query.page) || 1
PageOfBasic(query) == OrDefault(parseInt(query, "page"), DefaultPage)

\* parseInt(req.query.limit) || 10
LimitOfBasic(query) == OrDefault(parseInt(query, "limit"), DefaultLimit)

\* The rows a query with LIMIT limit OFFSET offset returns out of count
RowsOnPage(count, limit, offset) == Max(0, Min(limit, count - offset))

\* The pagination object of a list response
Pagination(page, limit, count) ==
    [currentPage |-> page,
     totalPages |-> Ceil(count, limit),
     totalItems |-> count,
     itemsPerPage |-> limit]

----------------------------------------------------------------------------
(* getShippingAddressesByUserId, src/unnamed/part_000 *)

\* User.findByPk, then ShippingAddress.findAndCountAll
getShippingAddressesByUserId(p, usuario_id, query) ==
    /\ pc[p] = "idle"
    /\ req' = [req EXCEPT ![p] =
                  [op |-> "listByUser", usuario_id |-> usuario_id, query |-> query]]
    /\ IF ~TruthyId(usuario_id)
       THEN Respond(p, [status |-> 400, error |-> "User ID is required"])
       ELSE IF ~UserExists(usuario_id)
       THEN Respond(p, [status |-> 404, error |-> "User not found"])
       ELSE LET page == PageOf(query)
                limit == LimitOf(query)
                offset == (page - 1) * limit
                count == CountByUser(addresses, usuario_id)
            IN IF count = 0
               THEN Respond(p, [status |-> 404,
                                message |-> "No shipping addresses found for this user"])
               ELSE Respond(p, [status |-> 200,
                                rows |-> RowsOnPage(count, limit, offset),
                                pagination |-> Pagination(page, limit, count)])
    /\ UNCHANGED <<addresses, nextId, now, loc>>
    /\ Marked(p)

----------------------------------------------------------------------------
(* getShippingAddressesByUserId, src/unnamed/part_001 *)

\* ShippingAddress.count and the empty check, then page, limit and offset
getShippingAddressesByUserIdBasic(p, usuario_id, query) ==
    /\ pc[p] = "idle"
    /\ req' = [req EXCEPT ![p] =
                  [op |-> "listByUserBasic", usuario_id |-> usuario_id, query |-> query]]
    /\ IF ~TruthyId(usuario_id)
       THEN /\ Respond(p, [status |-> 400, error |-> "User ID is required"])
            /\ UNCHANGED loc
       ELSE IF CountByUser(addresses, usuario_id) = 0
       THEN /\ Respond(p, [status |-> 404,
                           message |-> "No shipping addresses found for this user"])
            /\ UNCHANGED loc
       ELSE /\ Goto(p, "listBasic_find")
            /\ loc' = [loc EXCEPT ![p] =
                          [page |-> PageOfBasic(query), limit |-> LimitOfBasic(query)]]
    /\ UNCHANGED <<addresses, nextId, now>>
    /\ Marked(p)

\* ShippingAddress.findAndCountAll; the database refuses a negative LIMIT or
\* OFFSET
getShippingAddressesByUserIdBasic_find(p) ==
    /\ pc[p] = "listBasic_find"
    /\ LET page == loc[p].page
           limit == loc[p].limit
           offset == (page - 1) * limit
           count == CountByUser(addresses, req[p].usuario_id)
       IN IF limit < 0 \/ offset < 0
          THEN Respond(p, [status |-> 500, error |-> "Error retrieving shipping addresses"])
          ELSE Respond(p, [status |-> 200,
                           rows |-> RowsOnPage(count, limit, offset),
                           pagination |-> Pagination(page, limit, count)])
    /\ UNCHANGED <<addresses, nextId, now, req, loc>>
    /\ Marked(p)

----------------------------------------------------------------------------
(* getAllShippingAddresses, src/unnamed/part_000 *)

FilterFields == {"ciudad", "estado_provincia", "pais"}

\* whereClause: a filter for every truthy query parameter, trimmed
WhereClause(query) ==
    [f \in {g \in FilterFields : Truthy(query, g)} |-> Trim(query[f])]

Matches(r, where) == \A f \in DOMAIN where : r[f] = where[f]

\* page, limit, the where clause, then ShippingAddress.count
getAllShippingAddresses(p, query) ==
    /\ pc[p] = "idle"
    /\ req' = [req EXCEPT ![p] = [op |-> "listAll", query |-> query]]
    /\ LET totalCount == Cardinality({r \in addresses : Matches(r, WhereClause(query))})
       IN IF totalCount = 0
          THEN /\ Respond(p, [status |-> 404, message |-> "No shipping addresses found"])
               /\ UNCHANGED loc
          ELSE /\ Goto(p, "listAll_find")
               /\ loc' = [loc EXCEPT ![p] =
                             [page |-> PageOf(query), limit |-> LimitOf(query),
                              totalCount |-> totalCount]]
    /\ UNCHANGED <<addresses, nextId, now>>
    /\ Marked(p)

\* ShippingAddress.findAll with limit and offset
getAllShippingAddresses_find(p) ==
    /\ pc[p] = "listAll_find"
    /\ LET page == loc[p].page
           limit == loc[p].limit
           offset == (page - 1) * limit
           found == Cardinality({r \in addresses : Matches(r, WhereClause(req[p].query))})
       IN Respond(p, [status |-> 200,
                      rows |-> RowsOnPage(found, limit, offset),
                      pagination |-> Pagination(page, limit, loc[p].totalCount)])
    /\ UNCHANGED <<addresses, nextId, now, req, loc>>
    /\ Marked(p)

\* getAllShippingAddresses, src/unnamed/part_001: findAll without pagination
getAllShippingAddressesBasic(p) ==
    /\ pc[p] = "idle"
    /\ req' = [req EXCEPT ![p] = [op |-> "listAllBasic"]]
    /\ Respond(p, [status |-> 200, rows |-> Cardinality(addresses)])
    /\ UNCHANGED <<addresses, nextId, now, loc>>
    /\ Marked(p)

----------------------------------------------------------------------------
(* The requests the environment sends *)

StrA == <<"A">>
StrAPadded == <<" ", "A", "\t">>
StrBPadded == <<" ", "B", " ">>
StrBlank == <<" ">>
Zip5 == <<"1", "2", "3", "4", "5">>
Zip5Padded == <<" ">> \o Zip5 \o <<" ">>
Zip9 == Zip5 \o <<"-", "6", "7", "8", "9">>
ZipShort == <<"1", "2", "3", "4">>
ZipAlpha == <<"a", "b", "c", "d", "e">>
ZipHalf == Zip5 \o <<"-", "6", "7">>

\* A body with all six fields, text padded with white space
FullBody(u) ==
    [usuario_id |-> u, direccion |-> StrAPadded, ciudad |-> StrA,
     estado_provincia |-> StrA, codigo_postal |-> Zip5Padded, pais |-> StrA]

Without(body, f) == [g \in DOMAIN body \ {f} |-> body[g]]

\* Bodies that pass every check of createShippingAddress
ValidBodies == {FullBody(u) : u \in Users}

\* Bodies that fail one check
InvalidBodies ==
    {Without(FullBody(1), "ciudad"),
     [FullBody(1) EXCEPT !.pais = <<>>],
     [FullBody(1) EXCEPT !.usuario_id = 0],
     FullBody(UnknownUser),
     [FullBody(1) EXCEPT !.codigo_postal = ZipShort],
     [FullBody(2) EXCEPT !.codigo_postal = ZipHalf]}

CreateBodies == ValidBodies \cup InvalidBodies

\* The identity and role the auth middleware attaches to a request
Callers == [userId : Users, isAdmin : BOOLEAN]

\* Partial bodies of an update
UpdateBodiesSmall ==
    {[ciudad |-> StrBPadded],
     [codigo_postal |-> ZipShort],
     [ciudad |-> StrBPadded, usuario_id |-> 2, is_default |-> TRUE]}

UpdateBodies ==
    {<< >>,
     [direccion |-> <<>>, ciudad |-> StrBPadded],
     [codigo_postal |-> <<" ">> \o Zip9, pais |-> StrBlank],
     [codigo_postal |-> ZipAlpha],
     [codigo_postal |-> StrBlank, ciudad |-> StrBPadded]}

\* Address ids a request may name: none (0), every id handed out, the next one
SomeIds == 0..nextId

\* addressIds lists of at most two ids
IdLists ==
    {<<>>} \cup {<<i>> : i \in 1..nextId} \cup {<<i, j>> : i \in 1..nextId, j \in 1..nextId}

\* Query strings for page and limit
PageValues == {<<"0">>, <<"-", "1">>, <<"1">>, <<"2">>, <<"3">>, <<"x">>}
LimitValues == {<<"0">>, <<"-", "3">>, <<"1">>, <<"2">>, <<"5", "0">>, <<"5", "1">>,
                <<"1", "0", "0">>, <<"2", "p", "x">>}

Queries ==
    {<< >>} \cup {[page |-> pg] : pg \in PageValues}
            \cup {[limit |-> lm] : lm \in LimitValues}
            \cup {[page |-> pg, limit |-> lm] : pg \in PageValues, lm \in LimitValues}

FilterQueries == {<< >>, [ciudad |-> StrAPadded], [pais |-> StrBPadded, limit |-> <<"1">>]}

\* Create requests accepted so far or still in flight
CreatesIssued ==
    (nextId - 1) + Cardinality({q \in Procs : pc[q] \in
        {"create_count", "create_insert", "createBasic_insert"}})

\* Requests are served one at a time
Alone(p) == \A q \in Procs \ {p} : pc[q] = "idle"

----------------------------------------------------------------------------
(* The address limit under concurrent requests: create, delete, bulk delete *)

LimitIds == {1, 2}

LimitCallers == {[userId |-> 1, isAdmin |-> FALSE], [userId |-> 2, isAdmin |-> TRUE]}

\* A request may arrive at slot p: always when requests overlap, and only
\* when no other request is being served when they are served one at a time.
Free(p, serial) == pc[p] = "idle" /\ (serial => Alone(p))

\* Bodies for the basic create, which checks neither the owner nor the postal code
LimitBodiesBasic ==
    ValidBodies \cup {Without(FullBody(1), "ciudad"), FullBody(UnknownUser)}

LimitStep(p, serial) ==
    \/ Free(p, serial) /\ \E body \in CreateBodies :
          CreatesIssued < MaxRows /\ createShippingAddress(p, body)
    \/ createShippingAddress_count(p)
    \/ createShippingAddress_insert(p)
    \/ Free(p, serial) /\ \E body \in LimitBodiesBasic :
          CreatesIssued < MaxRows /\ createShippingAddressBasic(p, body)
    \/ createShippingAddressBasic_insert(p)
    \/ Free(p, serial) /\ \E id \in LimitIds, caller \in LimitCallers :
          deleteShippingAddress(p, id, caller)
    \/ deleteShippingAddress_txn(p)
    \/ Free(p, serial) /\ \E id \in LimitIds, caller \in LimitCallers :
          deleteShippingAddressBasic(p, id, caller)
    \/ Free(p, serial) /\ \E caller \in LimitCallers :
          bulkDeleteAddresses(p, <<1, 2>>, caller)
    \/ Return(p)

\* Requests overlap
NextLimit == \E p \in Procs : LimitStep(p, FALSE)

SpecLimit == Init /\ [][NextLimit]_vars

\* Requests are served one at a time
NextLimitSeq == \E p \in Procs : LimitStep(p, TRUE)

SpecLimitSeq == Init /\ [][NextLimitSeq]_vars

\* C1: no user owns more than 5 shipping addresses, whatever the interleaving
\* of create, delete and bulk delete requests.
C1_AtMostFivePerUser ==
    \A u \in Users \cup {UnknownUser} : CountByUser(addresses, u) <= MaxAddresses

\* A create request: all six fields truthy, an existing owner, a well-formed
\* postal code
OtherwiseValid(body) ==
    /\ DOMAIN body = TextFields \cup {"usuario_id"}
    /\ body.usuario_id \in Users
    /\ \A f \in TextFields : body[f] # <<>>
    /\ Trim(body.codigo_postal) \in {Zip5, Zip9}

IsCreate(r) == r.op \in {"create", "createBasic"}

\* C2: with requests served one at a time, an otherwise valid create answered
\* while its owner has exactly 4 addresses gets 201 and adds exactly one row, of
\* that owner; answered while the owner has 5 or more it gets 400 with the
\* limit error and the table is left as it was.
C2_FifthSucceedsSixthRejected ==
    [][\A p \in Procs :
          (pc[p] # "done" /\ pc'[p] = "done" /\ IsCreate(req'[p])
              /\ OtherwiseValid(req'[p].body))
          => LET u == req'[p].body.usuario_id
                 n == CountByUser(addresses, u)
             IN /\ n = MaxAddresses - 1 =>
                     /\ resp'[p].status = 201
                     /\ addresses \subseteq addresses'
                     /\ Cardinality(addresses' \ addresses) = 1
                     /\ CountByUser(addresses', u) = MaxAddresses
                /\ n >= MaxAddresses =>
                     /\ resp'[p].status = 400
                     /\ resp'[p].error = "Maximum number of addresses reached (5)"
                     /\ addresses' = addresses
                     /\ ~wrote'[p]]_vars

\* A fifth address was created and a sixth refused, one request at a time
C2_Witness ==
    \E p \in Procs, q \in Procs :
        /\ pc[p] = "done" /\ IsCreate(req[p]) /\ OtherwiseValid(req[p].body)
        /\ resp[p].status = 400
        /\ resp[p].error = "Maximum number of addresses reached (5)"
        /\ CountByUser(addresses, req[p].body.usuario_id) = MaxAddresses
        /\ pc[q] = "idle"

----------------------------------------------------------------------------
(* Every handler that changes the table, requests served one at a time *)

OwnerArgs == Users \cup {UnknownUser}

MainStep(p, serial) ==
    \/ Free(p, serial) /\ \E body \in CreateBodies :
          CreatesIssued < MaxRowsSmall /\ createShippingAddress(p, body)
    \/ createShippingAddress_count(p)
    \/ createShippingAddress_insert(p)
    \/ Free(p, serial) /\ \E body \in LimitBodiesBasic :
          CreatesIssued < MaxRowsSmall
              /\ createShippingAddressBasic(p, body)
    \/ createShippingAddressBasic_insert(p)
    \/ Free(p, serial) /\ \E id \in SomeIds, caller \in Callers :
          deleteShippingAddress(p, id, caller)
    \/ deleteShippingAddress_txn(p)
    \/ Free(p, serial) /\ \E id \in SomeIds, caller \in Callers :
          deleteShippingAddressBasic(p, id, caller)
    \/ Free(p, serial) /\ \E id \in SomeIds, caller \in Callers, body \in UpdateBodiesSmall :
          updateShippingAddress(p, id, caller, body)
    \/ updateShippingAddress_txn(p)
    \/ updateShippingAddress_reload(p)
    \/ Free(p, serial) /\ \E id \in SomeIds \ {0}, usuario_id \in OwnerArgs, caller \in Callers :
          setDefaultAddress(p, id, usuario_id, caller)
    \/ setDefaultAddress_clear(p)
    \/ setDefaultAddress_set(p)
    \/ Free(p, serial) /\ \E addressIds \in IdLists, caller \in Callers :
          bulkDeleteAddresses(p, addressIds, caller)
    \/ Return(p)

Next == \E p \in Procs : MainStep(p, TRUE)

Spec == Init /\ [][Next]_vars

NextOverlap == \E p \in Procs : MainStep(p, FALSE)

SpecOverlap == Init /\ [][NextOverlap]_vars

\* Slot p takes up a request in this step
Arrives(p) == pc[p] = "idle" /\ pc'[p] # "idle"

\* Slot p sends its response in this step
Answers(p) == pc[p] # "done" /\ pc'[p] = "done"

DefaultsOf(store, u) == {r.id : r \in {x \in OwnedBy(store, u) : x.is_default}}

\* C3: each user owns at most one address whose is-default flag is true.
C3_AtMostOneDefaultPerUser ==
    \A u \in Users : Cardinality(DefaultsOf(addresses, u)) <= 1

\* C4: right after a SetDefault(addr, user) answered 200, user owns exactly one
\* default address, and it is addr.
C4_SetDefaultLeavesExactlyThatDefault ==
    \A p \in Procs :
        (pc[p] = "done" /\ req[p].op = "setDefault" /\ resp[p].status = 200)
        => DefaultsOf(addresses, req[p].usuario_id) = {req[p].id}

\* C5: an update or delete of an existing address by a caller who is neither
\* its owner nor an admin is answered 403 and leaves the table as it was; the
\* owner and an admin are not answered 403.
C5_OnlyOwnerOrAdminElseForbidden ==
    [][\A p \in Procs :
          (Arrives(p) /\ req'[p].op \in {"delete", "deleteBasic", "update"}
              /\ req'[p].id \in Ids(addresses))
          => LET owner == Row(addresses, req'[p].id).usuario_id
                 caller == req'[p].caller
             IN IF owner # caller.userId /\ ~caller.isAdmin
                THEN /\ pc'[p] = "done"
                     /\ resp'[p].status = 403
                     /\ addresses' = addresses
                ELSE ~(pc'[p] = "done" /\ resp'[p].status = 403)]_vars

\* The same for the handlers of src/unnamed/part_000 alone
OwnerOrAdminElseForbidden_part_000 ==
    [][\A p \in Procs :
          (Arrives(p) /\ req'[p].op \in {"delete", "update"}
              /\ req'[p].id \in Ids(addresses))
          => LET owner == Row(addresses, req'[p].id).usuario_id
                 caller == req'[p].caller
             IN IF owner # caller.userId /\ ~caller.isAdmin
                THEN /\ pc'[p] = "done"
                     /\ resp'[p].status = 403
                     /\ addresses' = addresses
                ELSE ~(pc'[p] = "done" /\ resp'[p].status = 403)]_vars

\* The requests that change or remove rows
MutatingOps == {"update", "delete", "setDefault", "bulkDelete"}

\* C6: a step of an update, delete, set-default or bulk-delete request that
\* changes or removes a row is the step of a request whose caller is the owner
\* of that row or an admin.
C6_RowsChangeOnlyForOwnerOrAdmin ==
    [][\A p \in Procs :
          (pc'[p] # pc[p] /\ req'[p].op \in MutatingOps)
          => \A r \in addresses :
                r \notin addresses'
                => (r.usuario_id = req'[p].caller.userId \/ req'[p].caller.isAdmin)]_vars

\* C7: a bulk delete removes exactly the rows whose id is listed and whose
\* owner is the caller; every other row stays as it was, and no row appears.
C7_BulkDeleteRemovesExactlyOwnedListed ==
    [][\A p \in Procs :
          (Arrives(p) /\ req'[p].op = "bulkDelete")
          => LET ids == {req'[p].addressIds[i] : i \in DOMAIN req'[p].addressIds}
                 me == req'[p].caller.userId
             IN /\ addresses' \subseteq addresses
                /\ addresses \ addresses' =
                      {r \in addresses : r.id \in ids /\ r.usuario_id = me}
                /\ \A r \in addresses :
                      (r.id \notin ids \/ r.usuario_id # me) => r \in addresses']_vars

\* A bulk delete by an admin listed an address of its own and one of another
\* user: its own is gone, the other one is still there
C7_Witness ==
    \E p \in Procs :
        /\ pc[p] = "done" /\ req[p].op = "bulkDelete" /\ wrote[p]
        /\ req[p].caller.isAdmin
        /\ Len(req[p].addressIds) = 2
        /\ \E r \in addresses :
              r.id \in Range(req[p].addressIds) /\ r.usuario_id # req[p].caller.userId
        /\ \E i \in Range(req[p].addressIds) : i < nextId /\ i \notin Ids(addresses)

----------------------------------------------------------------------------
(* Partial updates, with the clock running *)

UpdateStep(p, serial) ==
    \/ Free(p, serial) /\ \E body \in ValidBodies :
          CreatesIssued < MaxRowsUpdate /\ createShippingAddress(p, body)
    \/ createShippingAddress_count(p)
    \/ createShippingAddress_insert(p)
    \/ Free(p, serial) /\ \E id \in SomeIds, caller \in Callers, body \in UpdateBodies :
          updateShippingAddress(p, id, caller, body)
    \/ updateShippingAddress_txn(p)
    \/ updateShippingAddress_reload(p)
    \/ Return(p)

NextUpdate == Tick \/ \E p \in Procs : UpdateStep(p, TRUE)

SpecUpdate == Init /\ [][NextUpdate]_vars

\* C9: an update answered 200 sets every text field supplied with a non-empty
\* value to that value trimmed, changes no text field that was not supplied
\* (the postal code among them), sets updated_at to the time of the request,
\* and leaves id, owner, is-default, created_at and every other row alone.
C9_UpdateWritesOnlySuppliedFields ==
    [][\A p \in Procs :
          (req[p].op = "update" /\ Answers(p) /\ resp'[p].status = 200)
          => LET id == req[p].id
                 body == req[p].body
                 old == Row(addresses, id)
                 new == Row(addresses', id)
             IN /\ Ids(addresses') = Ids(addresses)
                /\ \A f \in TextFields :
                      /\ f \notin DOMAIN body => new[f] = old[f]
                      /\ new[f] # old[f] => (f \in DOMAIN body /\ new[f] = Trim(body[f]))
                      /\ (f \in DOMAIN body /\ body[f] # <<>>) => new[f] = Trim(body[f])
                /\ new.updated_at = req[p].at
                /\ new.id = old.id
                /\ new.usuario_id = old.usuario_id
                /\ new.is_default = old.is_default
                /\ new.created_at = old.created_at
                /\ \A r \in addresses : r.id # id => r \in addresses']_vars

\* An update without a postal code was answered 200 at a later time than the
\* creation: the city is the trimmed new one, the postal code the created one
C9_Witness ==
    \E p \in Procs :
        /\ pc[p] = "done" /\ req[p].op = "update" /\ resp[p].status = 200
        /\ "codigo_postal" \notin DOMAIN req[p].body
        /\ "ciudad" \in DOMAIN req[p].body
        /\ LET row == Row(addresses, req[p].id)
           IN /\ row.ciudad = <<"B">>
              /\ row.codigo_postal = Zip5
              /\ row.updated_at = req[p].at
              /\ row.updated_at > row.created_at

----------------------------------------------------------------------------
(* The list handlers *)

PageStep(p, serial) ==
    \/ Free(p, serial) /\ \E body \in ValidBodies :
          CreatesIssued < MaxRowsPage /\ createShippingAddress(p, body)
    \/ createShippingAddress_count(p)
    \/ createShippingAddress_insert(p)
    \/ Free(p, serial) /\ \E usuario_id \in OwnerArgs \cup {0}, query \in Queries :
          getShippingAddressesByUserId(p, usuario_id, query)
    \/ Free(p, serial) /\ \E usuario_id \in OwnerArgs \cup {0}, query \in Queries :
          getShippingAddressesByUserIdBasic(p, usuario_id, query)
    \/ getShippingAddressesByUserIdBasic_find(p)
    \/ Free(p, serial) /\ \E query \in Queries \cup FilterQueries :
          getAllShippingAddresses(p, query)
    \/ getAllShippingAddresses_find(p)
    \/ Free(p, serial) /\ getAllShippingAddressesBasic(p)
    \/ Return(p)

NextPage == \E p \in Procs : PageStep(p, TRUE)

SpecPage == Init /\ [][NextPage]_vars

\* A query parameter that is an integer: an optional minus sign, then digits
IsInteger(s) ==
    LET ds == IF s # <<>> /\ Head(s) = "-" THEN Tail(s) ELSE s
    IN ds # <<>> /\ \A i \in 1..Len(ds) : ds[i] \in Digits

IntegerQuery(query) ==
    \A k \in {"page", "limit"} : k \in DOMAIN query => IsInteger(query[k])

\* C10: for integer page and limit values a list response reports page
\* max(1, page), 1 when absent; a limit within 1..50 that is 50 for a limit
\* above 50, 1 for a limit below 1, 10 when absent and the limit itself
\* otherwise; and totalPages = ceil(totalItems / itemsPerPage).
C10_PaginationIsClamped ==
    \A p \in Procs :
        (/\ pc[p] = "done"
         /\ req[p].op \in {"listByUser", "listByUserBasic", "listAll"}
         /\ resp[p].status = 200
         /\ IntegerQuery(req[p].query))
        => LET query == req[p].query
               pg == resp[p].pagination
               page == parseInt(query, "page").val
               limit == parseInt(query, "limit").val
           IN /\ pg.currentPage =
                    (IF "page" \in DOMAIN query THEN (IF page < 1 THEN 1 ELSE page) ELSE 1)
              /\ pg.itemsPerPage \in 1..50
              /\ pg.itemsPerPage =
                    (IF "limit" \notin DOMAIN query THEN 10
                     ELSE IF limit > 50 THEN 50
                     ELSE IF limit < 1 THEN 1
                     ELSE limit)
              /\ pg.totalPages * pg.itemsPerPage >= pg.totalItems
              /\ (pg.totalPages - 1) * pg.itemsPerPage < pg.totalItems

\* What getShippingAddressesByUserId and getAllShippingAddresses of
\* src/unnamed/part_000 report: as C10 says, but a limit of 0 becomes 10.
PaginationIsClamped_part_000 ==
    \A p \in Procs :
        (/\ pc[p] = "done"
         /\ req[p].op \in {"listByUser", "listAll"}
         /\ resp[p].status = 200
         /\ IntegerQuery(req[p].query))
        => LET query == req[p].query
               pg == resp[p].pagination
               page == parseInt(query, "page").val
               limit == parseInt(query, "limit").val
           IN /\ pg.currentPage =
                    (IF "page" \in DOMAIN query THEN (IF page < 1 THEN 1 ELSE page) ELSE 1)
              /\ pg.itemsPerPage \in 1..50
              /\ pg.itemsPerPage =
                    (IF "limit" \notin DOMAIN query THEN 10
                     ELSE IF limit > 50 THEN 50
                     ELSE IF limit = 0 THEN 10
                     ELSE IF limit < 1 THEN 1
                     ELSE limit)
              /\ pg.totalPages * pg.itemsPerPage >= pg.totalItems
              /\ (pg.totalPages - 1) * pg.itemsPerPage < pg.totalItems

ListByUserOps == {"listByUser", "listByUserBasic"}

\* C11: a list-by-user request for an existing owner without addresses is
\* answered 404, and no list-by-user response with status 200 carries an empty
\* address list, whatever the page and the limit.
C11_ListByUserNeverEmptyWith200 ==
    \A p \in Procs :
        (pc[p] = "done" /\ req[p].op \in ListByUserOps)
        => /\ (UserExists(req[p].usuario_id)
                  /\ CountByUser(addresses, req[p].usuario_id) = 0)
              => resp[p].status = 404
           /\ resp[p].status = 200 => resp[p].rows > 0

\* The first half of C11 alone: an existing owner without addresses gets 404
ListByUserWithoutAddressesIsNotFound ==
    \A p \in Procs :
        (/\ pc[p] = "done" /\ req[p].op \in ListByUserOps
         /\ UserExists(req[p].usuario_id)
         /\ CountByUser(addresses, req[p].usuario_id) = 0)
        => resp[p].status = 404

\* What the handlers do answer: a list-by-user response with status 200 is
\* empty exactly when the page lies behind the last row
ListByUserEmptyOnlyPastTheEnd ==
    \A p \in Procs :
        (pc[p] = "done" /\ req[p].op \in ListByUserOps /\ resp[p].status = 200)
        => LET pg == resp[p].pagination
           IN /\ pg.totalItems > 0
              /\ resp[p].rows = 0 <=>
                    (pg.currentPage - 1) * pg.itemsPerPage >= pg.totalItems

----------------------------------------------------------------------------
(* The transactions of setDefaultAddress and updateShippingAddress, requests
   overlapping *)

\* An admin: the ownership checks are not what is looked at here
TxnCaller == [userId |-> 1, isAdmin |-> TRUE]

TxnBodies == {[ciudad |-> StrBPadded]}

\* The addresses the requests name: the first two ids handed out
TxnIds == {1, 2}

TxnStep(p, serial) ==
    \/ Free(p, serial) /\ \E body \in ValidBodies :
          CreatesIssued < MaxRowsTxn /\ createShippingAddress(p, body)
    \/ createShippingAddress_count(p)
    \/ createShippingAddress_insert(p)
    \/ Free(p, serial) /\ \E id \in TxnIds, usuario_id \in Users :
          setDefaultAddress(p, id, usuario_id, TxnCaller)
    \/ setDefaultAddress_clear(p)
    \/ setDefaultAddress_set(p)
    \/ Free(p, serial) /\ \E id \in TxnIds, body \in TxnBodies :
          updateShippingAddress(p, id, TxnCaller, body)
    \/ updateShippingAddress_txn(p)
    \/ updateShippingAddress_reload(p)
    \/ Free(p, serial) /\ \E id \in TxnIds :
          deleteShippingAddress(p, id, TxnCaller)
    \/ deleteShippingAddress_txn(p)
    \/ Return(p)

NextTxn == \E p \in Procs : TxnStep(p, FALSE)

SpecTxn == Init /\ [][NextTxn]_vars

\* C12: the statements of a set-default and of an update take effect together
\* or not at all.  The table changes for such a request only in the step that
\* answers 200, and there every statement of the group has taken effect: the
\* rows the clear matched are not default and the target is, or the row has
\* the updates.  A request answered 500 has left the table as it was, and no
\* state of the table lies between the clear and the set.
C12_TransactionsAreAtomic ==
    [][\A p \in Procs :
          (pc'[p] # pc[p] /\ req'[p].op \in {"setDefault", "update"})
          => IF Answers(p) /\ resp'[p].status = 200
             THEN /\ Ids(addresses') = Ids(addresses)
                  /\ \A r \in addresses :
                        LET n == Row(addresses', r.id)
                        IN IF req[p].op = "setDefault"
                           THEN /\ [n EXCEPT !.is_default = r.is_default] = r
                                /\ n.is_default =
                                      (IF r.id = req[p].id THEN TRUE
                                       ELSE IF r.id \in loc[p].cleared THEN FALSE
                                       ELSE r.is_default)
                           ELSE n = (IF r.id = req[p].id
                                     THEN ApplyUpdates(r, Updates(req[p].body, req[p].at))
                                     ELSE r)
             ELSE /\ addresses' = addresses
                  /\ Answers(p) => ~wrote'[p]]_vars

\* A set-default that had cleared the default of another row was answered 500
\* at its second statement, and that row is the default as before
C12_Witness ==
    \E p \in Procs :
        /\ pc[p] = "done" /\ req[p].op = "setDefault" /\ resp[p].status = 500
        /\ "cleared" \in DOMAIN loc[p]
        /\ ~wrote[p]
        /\ \E r \in addresses :
              r.id \in loc[p].cleared /\ r.id # req[p].id /\ r.is_default

----------------------------------------------------------------------------
(* The count a bulk delete reports *)

\* C13: a bulk delete answered 200 reports as deletedCount the number of ids
\* in addressIds, whether or not the listed ids exist and belong to the caller.
C13_DeletedCountIsRequestedCount ==
    \A p \in Procs :
        (pc[p] = "done" /\ req[p].op = "bulkDelete" /\ resp[p].status = 200)
        => resp[p].deletedCount = Len(req[p].addressIds)

\* A bulk delete of two ids removed nothing, one id being of another user's
\* address and one of no address, and reports 2
C13_Witness ==
    \E p \in Procs :
        /\ pc[p] = "done" /\ req[p].op = "bulkDelete" /\ resp[p].status = 200
        /\ ~wrote[p]
        /\ resp[p].deletedCount = 2
        /\ \E r \in addresses :
              r.id \in Range(req[p].addressIds) /\ r.usuario_id # req[p].caller.userId
        /\ \E i \in Range(req[p].addressIds) : i \notin Ids(addresses)

----------------------------------------------------------------------------
(* The owner of an address *)

\* C14: an address keeps its owner from its creation to its deletion, whatever
\* update, set-default, delete and bulk-delete requests are served, and no step
\* of an update request changes the is-default flag of any address.
C14_OwnerNeverChanges ==
    [][/\ \A r \in addresses :
             r.id \in Ids(addresses')
             => Row(addresses', r.id).usuario_id = r.usuario_id
       /\ \A p \in Procs :
             (pc'[p] # pc[p] /\ req'[p].op = "update")
             => \A r \in addresses :
                   r.id \in Ids(addresses')
                   => Row(addresses', r.id).is_default = r.is_default]_vars

\* An update whose body named another owner and is_default true was answered
\* 200: the city is written, the address has its owner and is not default
C14_Witness ==
    \E p \in Procs :
        /\ pc[p] = "done" /\ req[p].op = "update" /\ resp[p].status = 200
        /\ wrote[p]
        /\ "usuario_id" \in DOMAIN req[p].body
        /\ "is_default" \in DOMAIN req[p].body
        /\ \E q \in Procs \ {p} : pc[q] = "idle"
        /\ LET row == Row(addresses, req[p].id)
           IN /\ row.usuario_id # req[p].body.usuario_id
              /\ row.ciudad = Trim(req[p].body.ciudad)
              /\ ~row.is_default

====
